---- MODULE Spec2Model ----
(***************************************************************************)
(* Model of sqlite-to-postgres-migration/migrate.js: a sequential script   *)
(* that copies every table of a SQLite database into PostgreSQL.           *)
(*                                                                         *)
(* JavaScript strings are sequences of one-character strings, so that      *)
(* quoting, case folding and escaping are computed, not assumed.           *)
(***************************************************************************)
EXTENDS Integers, Sequences, FiniteSets, TLC

(* ------------------------------------------------------------------ *)
(* Bounds and configuration                                            *)
(* ------------------------------------------------------------------ *)

\* migrate.js:9 sets BATCH_SIZE = 500; the model pages with a small width.
BATCH_SIZE == 2
\* migrate.js:10
MAX_RETRIES == 3
\* at most this many tables are returned by the table enumerator
MaxTables == 2
\* at most this many page fetches of one table raise an error
MaxFetchErrors == 1
\* at most this many INSERTs of one table are rejected
MaxRowErrors == 2
\* longest identifier given to getSafeIdentifier on its own
MaxIdentLen == 4
\* longest text or Buffer given to the row encoder on its own
MaxTextLen == 3

(* ------------------------------------------------------------------ *)
(* Strings                                                             *)
(* ------------------------------------------------------------------ *)

LowerAlpha == <<"a","b","c","d","e","f","g","h","i","j","k","l","m",
                "n","o","p","q","r","s","t","u","v","w","x","y","z">>
UpperAlpha == <<"A","B","C","D","E","F","G","H","I","J","K","L","M",
                "N","O","P","Q","R","S","T","U","V","W","X","Y","Z">>

\* String.prototype.toUpperCase, one character
upperChar(c) ==
  IF \E i \in 1..26 : LowerAlpha[i] = c
  THEN UpperAlpha[CHOOSE i \in 1..26 : LowerAlpha[i] = c]
  ELSE c

\* String.prototype.toLowerCase, one character
lowerChar(c) ==
  IF \E i \in 1..26 : UpperAlpha[i] = c
  THEN LowerAlpha[CHOOSE i \in 1..26 : UpperAlpha[i] = c]
  ELSE c

toUpperCase(s) == [i \in 1..Len(s) |-> upperChar(s[i])]
toLowerCase(s) == [i \in 1..Len(s) |-> lowerChar(s[i])]

\* the character " and the character '
DQ == "\""
SQ == "'"
\* the character U+0000
NUL == "NUL"

(* ------------------------------------------------------------------ *)
(* Helper functions of migrate.js                                      *)
(* ------------------------------------------------------------------ *)

\* sqliteToPgType without the toUpperCase of migrate.js:22
sqliteToPgTypeCaseSensitive(sqliteType) ==
  CASE sqliteType = <<"I","N","T","E","G","E","R">> -> "INTEGER"
    [] sqliteType = <<"R","E","A","L">>             -> "DOUBLE PRECISION"
    [] sqliteType = <<"T","E","X","T">>             -> "TEXT"
    [] sqliteType = <<"B","L","O","B">>             -> "BYTEA"
    [] OTHER                                        -> "TEXT"

\* migrate.js:21-29
sqliteToPgType(sqliteType) ==
  LET u == toUpperCase(sqliteType) IN
  CASE u = <<"I","N","T","E","G","E","R">> -> "INTEGER"
    [] u = <<"R","E","A","L">>             -> "DOUBLE PRECISION"
    [] u = <<"T","E","X","T">>             -> "TEXT"
    [] u = <<"B","L","O","B">>             -> "BYTEA"
    [] OTHER                               -> "TEXT"

\* migrate.js:33
reservedKeywords ==
  << <<"u","s","e","r">>, <<"g","r","o","u","p">>, <<"o","r","d","e","r">>,
     <<"t","a","b","l","e">>, <<"s","e","l","e","c","t">>,
     <<"w","h","e","r","e">>, <<"f","r","o","m">>, <<"i","n","d","e","x">>,
     <<"c","o","n","s","t","r","a","i","n","t">> >>

\* Array.prototype.includes
includes(arr, x) == \E i \in 1..Len(arr) : arr[i] = x

\* getSafeIdentifier without the toLowerCase of migrate.js:34
getSafeIdentifierCaseSensitive(identifier) ==
  IF includes(reservedKeywords, identifier)
  THEN <<DQ>> \o identifier \o <<DQ>>
  ELSE identifier

\* migrate.js:32-35
getSafeIdentifier(identifier) ==
  IF includes(reservedKeywords, toLowerCase(identifier))
  THEN <<DQ>> \o identifier \o <<DQ>>
  ELSE identifier

(* ------------------------------------------------------------------ *)
(* Row encoder, migrate.js:220-246                                     *)
(* ------------------------------------------------------------------ *)

\* JavaScript values of a row: null, a number, a string, a Buffer of bytes
\* (a byte is written "0x61")
JsNull      == [kind |-> "null",   n |-> 0, s |-> <<>>]
JsNumber(n) == [kind |-> "number", n |-> n, s |-> <<>>]
JsString(s) == [kind |-> "string", n |-> 0, s |-> s]
JsBuffer(b) == [kind |-> "buffer", n |-> 0, s |-> b]

\* String.prototype.replace(/\x00/g, '')
RECURSIVE removeNul(_)
removeNul(s) ==
  IF s = <<>> THEN <<>>
  ELSE IF Head(s) = NUL THEN removeNul(Tail(s))
  ELSE <<Head(s)>> \o removeNul(Tail(s))

\* String.prototype.replace("'", "''"): without the g flag only the first
\* single quote is doubled
escapeQuotesFirst(s) ==
  IF \E i \in 1..Len(s) : s[i] = SQ
  THEN LET i == CHOOSE i \in 1..Len(s) :
                  s[i] = SQ /\ \A j \in 1..(i - 1) : s[j] # SQ
       IN SubSeq(s, 1, i) \o <<SQ>> \o SubSeq(s, i + 1, Len(s))
  ELSE s

\* String.prototype.replace(/'/g, "''")
RECURSIVE escapeQuotes(_)
escapeQuotes(s) ==
  IF s = <<>> THEN <<>>
  ELSE IF Head(s) = SQ THEN <<SQ, SQ>> \o escapeQuotes(Tail(s))
  ELSE <<Head(s)>> \o escapeQuotes(Tail(s))

\* Buffer.prototype.toString('utf8') on single bytes: ASCII bytes decode to
\* their character, a byte that is no valid UTF-8 decodes to U+FFFD; the
\* call never throws, so the latin1 fallback of line 234 is not reached.
utf8Char(b) ==
  CASE b = "0x00" -> NUL
    [] b = "0x27" -> SQ
    [] b = "0x61" -> "a"
    [] OTHER      -> "U+FFFD"

toStringUtf8(buf) == [i \in 1..Len(buf) |-> utf8Char(buf[i])]

\* pgColumnTypes[key]: undefined when the key is absent
columnTypeOf(types, key) ==
  IF key \in DOMAIN types THEN types[key] ELSE "undefined"

\* the callback with the boolean rule of migrate.js:225-227 ahead of the
\* null rule of migrate.js:223
encodeValueBooleanFirst(types, key, value) ==
  LET columnType == columnTypeOf(types, key) IN
  IF columnType = "boolean"
  THEN IF value.kind = "number" /\ value.n = 1
       THEN JsString(<<"t","r","u","e">>)
       ELSE JsString(<<"f","a","l","s","e">>)
  ELSE IF value.kind = "null" THEN JsString(<<"N","U","L","L">>)
  ELSE IF value.kind = "buffer"
       THEN JsString(<<SQ>> \o escapeQuotes(toStringUtf8(value.s)) \o <<SQ>>)
  ELSE IF value.kind = "string"
       THEN JsString(<<SQ>> \o escapeQuotes(removeNul(value.s)) \o <<SQ>>)
  ELSE value

\* the callback of Object.entries(row).map at migrate.js:220-246
encodeValue(types, key, value) ==
  LET columnType == columnTypeOf(types, key) IN
  IF value.kind = "null" THEN JsString(<<"N","U","L","L">>)
  ELSE IF columnType = "boolean"
       THEN IF value.kind = "number" /\ value.n = 1
            THEN JsString(<<"t","r","u","e">>)
            ELSE JsString(<<"f","a","l","s","e">>)
  ELSE IF value.kind = "buffer"
       THEN JsString(<<SQ>> \o escapeQuotes(toStringUtf8(value.s)) \o <<SQ>>)
  ELSE IF value.kind = "string"
       THEN JsString(<<SQ>> \o escapeQuotes(removeNul(value.s)) \o <<SQ>>)
  ELSE value

(* ------------------------------------------------------------------ *)
(* Integrity precheck, migrate.js:38-96                                *)
(* ------------------------------------------------------------------ *)

\* checkSqliteIntegrity without the foreign-key test of migrate.js:76-80
checkSqliteIntegrityNoFk(integrityCheck, quickCheck, fkCheck, probe) ==
  IF integrityCheck.err \/ quickCheck.err \/ fkCheck.err THEN FALSE
  ELSE IF integrityCheck.val # "ok" THEN FALSE
  ELSE IF quickCheck.val # "ok" THEN FALSE
  ELSE IF probe.err THEN FALSE
  ELSE TRUE

\* A pragma's outcome: err is TRUE when the callback received an error,
\* val is the reported status (or the number of rows for foreign_key_check).
checkSqliteIntegrity(integrityCheck, quickCheck, fkCheck, probe) ==
  IF integrityCheck.err \/ quickCheck.err \/ fkCheck.err THEN FALSE
  ELSE IF integrityCheck.val # "ok" THEN FALSE
  ELSE IF quickCheck.val # "ok" THEN FALSE
  ELSE IF fkCheck.val > 0 THEN FALSE
  ELSE IF probe.err THEN FALSE
  ELSE TRUE

(* ------------------------------------------------------------------ *)
(* The two databases                                                   *)
(* ------------------------------------------------------------------ *)

user            == <<"u","s","e","r">>
chat            == <<"c","h","a","t">>
migratehistory  == <<"m","i","g","r","a","t","e","h","i","s","t","o","r","y">>
alembic_version == <<"a","l","e","m","b","i","c","_","v","e","r","s","i","o","n">>
\* an application table whose name differs from a bookkeeping name by case
Migratehistory  == <<"M","i","g","r","a","t","e","h","i","s","t","o","r","y">>

\* names a table of the source can have
TableNames == {user, chat, migratehistory, alembic_version, Migratehistory}
\* the application tables; the other two are bookkeeping tables
AppTables == {user, chat, Migratehistory}

\* what the table enumerator can return: distinct names in any order; the
\* table named Migratehistory is the only table of its database
TableLists ==
  UNION { { l \in [1..n -> TableNames] :
              /\ \A i, j \in 1..n : i # j => l[i] # l[j]
              /\ \A i \in 1..n : l[i] = Migratehistory => n = 1 } :
          n \in 0..MaxTables }

\* row counts of a source table, relative to the page width
RowCounts == {0, BATCH_SIZE - 1, BATCH_SIZE, BATCH_SIZE + 1, 3 * BATCH_SIZE}

\* every table has one column; its name and its declared types
ColumnName == <<"a","c","t","i","v","e">>
DeclaredTypes ==
  { <<"i","n","t","e","g","e","r">>, <<"I","N","T","E","G","E","R">>,
    <<"R","e","a","l">>, <<"t","e","x","t">>, <<"B","L","O","B">>,
    <<"b","o","o","l","e","a","n">>, <<>> }

\* values a source row can hold in that column
RowValues ==
  << JsNumber(1), JsNumber(0), JsNull,
     JsString(<<"a", SQ, NUL>>), JsBuffer(<<"0x61", "0x27", "0xFF">>) >>

\* the source data: the value of the row at position p of a table
rowValue(p) == RowValues[(p % Len(RowValues)) + 1]

\* a table of the destination: absent, or present with rows and the
\* data_type its column has in information_schema.columns
PgAbsent == [exists |-> FALSE, rows |-> 0, type |-> "none"]
PgTableStates ==
  { PgAbsent,
    [exists |-> TRUE, rows |-> 1, type |-> "boolean"],
    [exists |-> TRUE, rows |-> 1, type |-> "integer"] }

\* The table a statement's identifier denotes in the destination: a quoted
\* identifier denotes the name between the quotes, an unquoted one is
\* folded to lower case.
pgResolve(ident) ==
  IF Len(ident) >= 2 /\ ident[1] = DQ /\ ident[Len(ident)] = DQ
  THEN SubSeq(ident, 2, Len(ident) - 1)
  ELSE toLowerCase(ident)

\* information_schema.columns WHERE table_name = $1 (migrate.js:151-156):
\* the parameter is compared with the stored table name as a string.
informationSchemaColumns(db, param) ==
  IF param \in DOMAIN db /\ db[param].exists
  THEN { [column_name |-> ColumnName, data_type |-> db[param].type] }
  ELSE {}

\* migrate.js:158-161
buildColumnTypes(schemaRows) ==
  [ k \in { r.column_name : r \in schemaRows } |->
      (CHOOSE r \in schemaRows : r.column_name = k).data_type ]

(* ------------------------------------------------------------------ *)
(* State                                                               *)
(* ------------------------------------------------------------------ *)

VARIABLES
  pc,             \* position of migrate() / of the process
  exitCode,       \* exit code of the process, NotExited while it runs
  sqlite,         \* the source database: table list and row counts
  pg,             \* the destination database, by table name
  conns,          \* how often each connection was opened and closed
  precheck,       \* the outcomes of the pragmas of checkSqliteIntegrity
  tables,         \* migrate.js:123
  ti,             \* position of the for loop of migrate.js:130 in tables
  pgColumnTypes,  \* migrate.js:158
  schema,         \* migrate.js:164
  retryCount,     \* migrate.js:165
  totalRows,      \* migrate.js:197
  processedRows,  \* migrate.js:198
  failedRows,     \* migrate.js:199
  rows,           \* migrate.js:204, each row named by its position in the table
  ri,             \* position of the for loop of migrate.js:217 in rows
  pending,        \* TRUE when migrate() ends by rejecting its promise
  issued,         \* history: statements sent to the destination, by table
  sqliteIssued,   \* history: per-table queries sent to the source
  attempts,       \* history: rows of the current table whose INSERT was tried
  fetchErrors,    \* history: page fetches of the current table that failed
  commitErrors,   \* history: COMMITs of the current table that failed
  emitted,        \* history: the value and literal of the last encoded row
  truncated,      \* history: tables whose TRUNCATE succeeded in this run
  inserted,       \* history: INSERTs that succeeded in this run, by table
  migrated,       \* history: tables whose paging ended in this run
  touched,        \* history: tableName of each loop body begun, in order
  createFailed,   \* history: tables whose CREATE TABLE raised an error
  schemaTries,    \* history: outcome of each schema fetch of the current table
  run,            \* 1 in the first run of the script, 2 in the second
  afterRun1,      \* history: destination row counts when run 1 ended
  arg,            \* the argument of a helper function called on its own
  result          \* what that call returned

vars == << pc, exitCode, sqlite, pg, conns, precheck, tables, ti,
           pgColumnTypes, schema, retryCount, totalRows, processedRows,
           failedRows, rows, ri, pending, issued, sqliteIssued, attempts,
           fetchErrors, commitErrors, emitted, truncated, inserted,
           migrated, touched, createFailed, schemaTries, run, afterRun1, arg,
           result >>

\* variables of the per-table body, migrate.js:139-281
tableVars == << pgColumnTypes, schema, retryCount, totalRows, processedRows,
                failedRows, rows, ri, attempts, fetchErrors, commitErrors,
                emitted, schemaTries >>

NotExited == -1
NoEmit == [value |-> JsNull, literal |-> JsNull, done |-> FALSE]
NoTypes == [k \in {} |-> "undefined"]
NoCounts == [rows |-> [t \in TableNames |-> 0], migrated |-> {}]

PragmaResults ==
  { [err |-> FALSE, val |-> "ok"], [err |-> FALSE, val |-> "corrupt"],
    [err |-> TRUE, val |-> "ok"] }
FkResults ==
  { [err |-> FALSE, val |-> 0], [err |-> FALSE, val |-> 1],
    [err |-> TRUE, val |-> 0] }
ProbeResults == { [err |-> FALSE], [err |-> TRUE] }
NoCheck == [ran |-> FALSE,
            integrityCheck |-> [err |-> FALSE, val |-> "ok"],
            quickCheck |-> [err |-> FALSE, val |-> "ok"],
            fkCheck |-> [err |-> FALSE, val |-> 0],
            probe |-> [err |-> FALSE]]

\* no helper function is called on its own
NoArg == [fn |-> "none", ident |-> <<>>, types |-> NoTypes, value |-> JsNull]
NoResult == [done |-> FALSE, ident |-> <<>>, literal |-> JsNull]

\* tableName and safeTableName of the current iteration, migrate.js:131,139
tableName == tables[ti]
safeTableName == getSafeIdentifier(tableName)

\* the state of the script when the process starts, migrate.js:98
Fresh ==
  /\ pc = "start"
  /\ exitCode = NotExited
  /\ conns = [sqliteOpened |-> 0, sqliteClosed |-> 0,
              pgOpened |-> 0, pgClosed |-> 0]
  /\ precheck = NoCheck
  /\ tables = <<>>
  /\ ti = 0
  /\ pgColumnTypes = NoTypes
  /\ schema = <<>>
  /\ retryCount = 0
  /\ totalRows = 0
  /\ processedRows = 0
  /\ failedRows = <<>>
  /\ rows = <<>>
  /\ ri = 0
  /\ pending = FALSE
  /\ issued = {}
  /\ sqliteIssued = {}
  /\ attempts = <<>>
  /\ fetchErrors = 0
  /\ commitErrors = 0
  /\ emitted = NoEmit
  /\ truncated = {}
  /\ inserted = [t \in TableNames |-> 0]
  /\ migrated = {}
  /\ touched = <<>>
  /\ createFailed = {}
  /\ schemaTries = <<>>

\* The databases when the script starts: the enumerator's list is drawn
\* from lists, each listed application table has a row count drawn from
\* counts and a destination state; a table that no listed name denotes is
\* absent from the destination.
InitWith(lists, counts) ==
  /\ Fresh
  /\ run = 1
  /\ afterRun1 = NoCounts
  /\ arg = NoArg
  /\ result = NoResult
  /\ \E l \in lists :
       LET listed == { l[i] : i \in DOMAIN l } \cap AppTables IN
       /\ \E c \in [listed -> counts] :
            sqlite = [tables |-> l,
                      count  |-> [t \in TableNames |->
                                    IF t \in listed THEN c[t] ELSE 1]]
       /\ \E d \in [listed -> PgTableStates] :
            pg = [t \in TableNames |->
                    LET from == { n \in listed :
                                    pgResolve(getSafeIdentifier(n)) = t }
                    IN IF from = {} THEN PgAbsent
                       ELSE d[CHOOSE n \in from : TRUE]]

\* several tables, each empty or of one partial page
Init == InitWith(TableLists, {0, BATCH_SIZE - 1})

\* one table, of every size relative to the page width
InitPaging == InitWith({ l \in TableLists : Len(l) <= 1 }, RowCounts)

(* ------------------------------------------------------------------ *)
(* Start of the run, migrate.js:98-128                                 *)
(* ------------------------------------------------------------------ *)

\* migrate.js:100-108
OpenSqlite ==
  /\ pc = "start"
  /\ conns' = [conns EXCEPT !.sqliteOpened = @ + 1]
  /\ pc' = "connect"
  /\ UNCHANGED << exitCode, sqlite, pg, precheck, tables, ti, tableVars,
                  pending, issued, sqliteIssued, truncated, inserted,
                  migrated, touched, run, afterRun1, createFailed, arg,
                  result >>

\* migrate.js:111-112; the call is outside the try block, so a failure
\* makes migrate() reject without running the finally block
ConnectPg ==
  /\ pc = "connect"
  /\ \E ok \in BOOLEAN :
       IF ok
       THEN /\ conns' = [conns EXCEPT !.pgOpened = @ + 1]
            /\ pc' = "integrity"
            /\ UNCHANGED pending
       ELSE /\ pending' = TRUE
            /\ pc' = "rejected"
            /\ UNCHANGED conns
  /\ UNCHANGED << exitCode, sqlite, pg, precheck, tables, ti, tableVars,
                  issued, sqliteIssued, truncated, inserted, migrated,
                  touched, run, afterRun1, createFailed, arg, result >>

\* migrate.js:116-120 with checkSqliteIntegrity; process.exit(1) ends the
\* process at once, without running the finally block
IntegrityCheck ==
  /\ pc = "integrity"
  /\ \E ic \in PragmaResults, qc \in PragmaResults,
        fk \in FkResults, pr \in ProbeResults :
       /\ precheck' = [ran |-> TRUE, integrityCheck |-> ic, quickCheck |-> qc,
                       fkCheck |-> fk, probe |-> pr]
       /\ IF checkSqliteIntegrity(ic, qc, fk, pr)
          THEN pc' = "list" /\ UNCHANGED exitCode
          ELSE pc' = "exited" /\ exitCode' = 1
  /\ UNCHANGED << sqlite, pg, conns, tables, ti, tableVars, pending, issued,
                  sqliteIssued, truncated, inserted, migrated, touched, run,
                  afterRun1, createFailed, arg, result >>

\* migrate.js:123-128
ListTables ==
  /\ pc = "list"
  /\ \E ok \in BOOLEAN :
       IF ok
       THEN tables' = sqlite.tables /\ ti' = 1 /\ pc' = "loop"
       ELSE pc' = "catch" /\ UNCHANGED << tables, ti >>
  /\ UNCHANGED << exitCode, sqlite, pg, conns, precheck, tableVars, pending,
                  issued, sqliteIssued, truncated, inserted, migrated,
                  touched, run, afterRun1, createFailed, arg, result >>

(* ------------------------------------------------------------------ *)
(* Per-table schema steps, migrate.js:130-188                          *)
(* ------------------------------------------------------------------ *)

\* the test of migrate.js:134 when it ignores the case of the name
isSkippedIgnoringCase(name) ==
  toLowerCase(name) = migratehistory \/ toLowerCase(name) = alembic_version

\* migrate.js:134
isSkipped(name) == name = migratehistory \/ name = alembic_version

\* migrate.js:134-137
SkipTable ==
  /\ pc = "loop"
  /\ ti <= Len(tables)
  /\ isSkipped(tableName)
  /\ ti' = ti + 1
  /\ UNCHANGED << pc, exitCode, sqlite, pg, conns, precheck, tables,
                  tableVars, pending, issued, sqliteIssued, truncated,
                  inserted, migrated, touched, run, afterRun1, createFailed,
                  arg, result >>

\* truncateTable when the statement of migrate.js:145 clears nothing
truncateNothing(db, target) == db

\* the effect of TRUNCATE TABLE t CASCADE on the destination, migrate.js:145
truncateTable(db, target) == [db EXCEPT ![target].rows = 0]

\* migrate.js:139-148: the error of a failed TRUNCATE is logged and dropped
Truncate ==
  /\ pc = "loop"
  /\ ti <= Len(tables)
  /\ ~isSkipped(tableName)
  /\ LET target == pgResolve(safeTableName) IN
     /\ issued' = issued \cup { <<"TRUNCATE", target>> }
     /\ \E ok \in BOOLEAN :
          IF ok /\ pg[target].exists
          THEN /\ pg' = truncateTable(pg, target)
               /\ truncated' = truncated \cup {tableName}
          ELSE UNCHANGED << pg, truncated >>
  /\ touched' = Append(touched, tableName)
  /\ pc' = "pgschema"
  /\ UNCHANGED << exitCode, sqlite, conns, precheck, tables, ti, tableVars,
                  pending, sqliteIssued, inserted, migrated, run, afterRun1,
                  createFailed, arg, result >>

\* migrate.js:150-161
PgSchema ==
  /\ pc = "pgschema"
  /\ issued' = issued \cup { <<"CATALOG", pgResolve(safeTableName)>> }
  /\ \E ok \in BOOLEAN :
       IF ok
       THEN /\ pgColumnTypes' =
                 buildColumnTypes(informationSchemaColumns(pg, safeTableName))
            /\ retryCount' = 0
            /\ pc' = "schema"
       ELSE pc' = "catch" /\ UNCHANGED << pgColumnTypes, retryCount >>
  /\ UNCHANGED << exitCode, sqlite, pg, conns, precheck, tables, ti, schema,
                  totalRows, processedRows, failedRows, rows, ri, pending,
                  sqliteIssued, attempts, fetchErrors, commitErrors, emitted,
                  truncated, inserted, migrated, touched, schemaTries, run,
                  afterRun1, createFailed, arg, result >>

\* FetchSchema when the loop of migrate.js:166 and the test of
\* migrate.js:178 allow one attempt more
FetchSchemaOneMore ==
  /\ pc = "schema"
  /\ retryCount < MAX_RETRIES + 1
  /\ sqliteIssued' = sqliteIssued \cup { <<"SCHEMA", tableName>> }
  /\ \/ \E ty \in DeclaredTypes :
          /\ schema' = << [name |-> ColumnName, type |-> ty] >>
          /\ pc' = "create"
          /\ schemaTries' = Append(schemaTries, TRUE)
          /\ UNCHANGED retryCount
     \/ /\ retryCount' = retryCount + 1
        /\ pc' = IF retryCount + 1 = MAX_RETRIES + 1 THEN "catch" ELSE "schema"
        /\ schemaTries' = Append(schemaTries, FALSE)
        /\ UNCHANGED schema
  /\ UNCHANGED << exitCode, sqlite, pg, conns, precheck, tables, ti,
                  pgColumnTypes, totalRows, processedRows, failedRows, rows,
                  ri, pending, issued, attempts, fetchErrors, commitErrors,
                  emitted, truncated, inserted, migrated, touched, run,
                  afterRun1, createFailed, arg, result >>

\* migrate.js:163-180, one turn of the retry loop
FetchSchema ==
  /\ pc = "schema"
  /\ retryCount < MAX_RETRIES
  /\ sqliteIssued' = sqliteIssued \cup { <<"SCHEMA", tableName>> }
  /\ \/ \E ty \in DeclaredTypes :
          /\ schema' = << [name |-> ColumnName, type |-> ty] >>
          /\ pc' = "create"
          /\ schemaTries' = Append(schemaTries, TRUE)
          /\ UNCHANGED retryCount
     \/ /\ retryCount' = retryCount + 1
        /\ pc' = IF retryCount + 1 = MAX_RETRIES THEN "catch" ELSE "schema"
        /\ schemaTries' = Append(schemaTries, FALSE)
        /\ UNCHANGED schema
  /\ UNCHANGED << exitCode, sqlite, pg, conns, precheck, tables, ti,
                  pgColumnTypes, totalRows, processedRows, failedRows, rows,
                  ri, pending, issued, attempts, fetchErrors, commitErrors,
                  emitted, truncated, inserted, migrated, touched, run,
                  afterRun1, createFailed, arg, result >>

\* CreateTable when an error of the statement of migrate.js:187 is caught
\* inside the loop body and the table goes on
CreateTableCaught ==
  /\ pc = "create"
  /\ DOMAIN pgColumnTypes = {}
  /\ LET target == pgResolve(safeTableName) IN
     /\ issued' = issued \cup { <<"CREATE", target>> }
     /\ \E ok \in BOOLEAN :
          IF ok
          THEN /\ pg' = IF pg[target].exists THEN pg
                        ELSE [pg EXCEPT ![target] =
                                [exists |-> TRUE, rows |-> 0,
                                 type |-> sqliteToPgType(schema[1].type)]]
               /\ pc' = "count"
               /\ UNCHANGED createFailed
          ELSE /\ pc' = "count"
               /\ createFailed' = createFailed \cup {tableName}
               /\ UNCHANGED pg
  /\ schema' = <<>>
  /\ UNCHANGED << exitCode, sqlite, conns, precheck, tables, ti,
                  pgColumnTypes, retryCount, totalRows, processedRows,
                  failedRows, rows, ri, pending, sqliteIssued, attempts,
                  fetchErrors, commitErrors, emitted, truncated, inserted,
                  migrated, touched, schemaTries, run, afterRun1, arg,
                  result >>

\* migrate.js:183-188; schema is not read after this step
CreateTable ==
  /\ pc = "create"
  /\ DOMAIN pgColumnTypes = {}
  /\ LET target == pgResolve(safeTableName) IN
     /\ issued' = issued \cup { <<"CREATE", target>> }
     /\ \E ok \in BOOLEAN :
          IF ok
          THEN /\ pg' = IF pg[target].exists THEN pg
                        ELSE [pg EXCEPT ![target] =
                                [exists |-> TRUE, rows |-> 0,
                                 type |-> sqliteToPgType(schema[1].type)]]
               /\ pc' = "count"
               /\ UNCHANGED createFailed
          ELSE /\ pc' = "catch"
               /\ createFailed' = createFailed \cup {tableName}
               /\ UNCHANGED pg
  /\ schema' = <<>>
  /\ UNCHANGED << exitCode, sqlite, conns, precheck, tables, ti,
                  pgColumnTypes, retryCount, totalRows, processedRows,
                  failedRows, rows, ri, pending, sqliteIssued, attempts,
                  fetchErrors, commitErrors, emitted, truncated, inserted,
                  migrated, touched, schemaTries, run, afterRun1, arg,
                  result >>

\* migrate.js:183, the condition is false
ReuseTable ==
  /\ pc = "create"
  /\ DOMAIN pgColumnTypes # {}
  /\ pc' = "count"
  /\ schema' = <<>>
  /\ UNCHANGED << exitCode, sqlite, pg, conns, precheck, tables, ti,
                  pgColumnTypes, retryCount, totalRows, processedRows,
                  failedRows, rows, ri, pending, issued, sqliteIssued,
                  attempts, fetchErrors, commitErrors, emitted, truncated,
                  inserted, migrated, touched, schemaTries, run, afterRun1,
                  createFailed, arg, result >>

(* ------------------------------------------------------------------ *)
(* Paging and inserting, migrate.js:190-281                            *)
(* ------------------------------------------------------------------ *)

\* migrate.js:190-199
CountRows ==
  /\ pc = "count"
  /\ sqliteIssued' = sqliteIssued \cup { <<"COUNT", tableName>> }
  /\ \E ok \in BOOLEAN :
       IF ok
       THEN /\ totalRows' = sqlite.count[tableName]
            /\ processedRows' = 0
            /\ failedRows' = <<>>
            /\ pc' = "fetch"
       ELSE /\ pc' = "catch"
            /\ UNCHANGED << totalRows, processedRows, failedRows >>
  /\ UNCHANGED << exitCode, sqlite, pg, conns, precheck, tables, ti,
                  pgColumnTypes, schema, retryCount, rows, ri, pending,
                  issued, attempts, fetchErrors, commitErrors, emitted,
                  truncated, inserted, migrated, touched, schemaTries, run,
                  afterRun1, createFailed, arg, result >>

\* a page query whose OFFSET is one row short after the first page
selectPageOverlapping(n, limit, offset) ==
  LET from == IF offset > 0 THEN offset - 1 ELSE 0
      k == IF n - from > limit THEN limit
           ELSE IF n - from > 0 THEN n - from ELSE 0
  IN  [i \in 1..k |-> from + i - 1]

\* SELECT * FROM t LIMIT limit OFFSET offset on a table of n rows: the
\* positions of the rows returned
selectPage(n, limit, offset) ==
  LET k == IF n - offset > limit THEN limit
           ELSE IF n - offset > 0 THEN n - offset ELSE 0
  IN  [i \in 1..k |-> offset + i - 1]

\* FetchPage when a failed fetch is not handled at migrate.js:265-270 but
\* reaches the handler of migrate.js:290
FetchPageAbort ==
  /\ pc = "fetch"
  /\ sqliteIssued' = sqliteIssued \cup { <<"SELECT", tableName>> }
  /\ \/ LET page == selectPage(sqlite.count[tableName], BATCH_SIZE,
                               processedRows) IN
        /\ rows' = page
        /\ IF Len(page) = 0
           THEN pc' = "tabledone" /\ ri' = 0
           ELSE pc' = "row" /\ ri' = 1
        /\ UNCHANGED << processedRows, fetchErrors >>
     \/ /\ fetchErrors < MaxFetchErrors
        /\ fetchErrors' = fetchErrors + 1
        /\ pc' = "catch"
        /\ UNCHANGED << processedRows, rows, ri >>
  /\ UNCHANGED << exitCode, sqlite, pg, conns, precheck, tables, ti,
                  pgColumnTypes, schema, retryCount, totalRows, failedRows,
                  pending, issued, attempts, commitErrors, emitted, truncated,
                  inserted, migrated, touched, schemaTries, run, afterRun1,
                  createFailed, arg, result >>

\* migrate.js:203-214 with the handler of migrate.js:265-270 for a failed
\* fetch
FetchPage ==
  /\ pc = "fetch"
  /\ sqliteIssued' = sqliteIssued \cup { <<"SELECT", tableName>> }
  /\ \/ LET page == selectPage(sqlite.count[tableName], BATCH_SIZE,
                               processedRows) IN
        /\ rows' = page
        /\ IF Len(page) = 0
           THEN pc' = "tabledone" /\ ri' = 0
           ELSE pc' = "row" /\ ri' = 1
        /\ UNCHANGED << processedRows, fetchErrors >>
     \/ /\ fetchErrors < MaxFetchErrors
        /\ fetchErrors' = fetchErrors + 1
        /\ processedRows' = processedRows + BATCH_SIZE
        /\ UNCHANGED << pc, rows, ri >>
  /\ UNCHANGED << exitCode, sqlite, pg, conns, precheck, tables, ti,
                  pgColumnTypes, schema, retryCount, totalRows, failedRows,
                  pending, issued, attempts, commitErrors, emitted, truncated,
                  inserted, migrated, touched, schemaTries, run, afterRun1,
                  createFailed, arg, result >>

\* afterRow with a break in place of the continue of migrate.js:257
afterRowBreak(i, n, success) == IF i = n \/ ~success THEN "commit" ELSE "row"

\* the for loop of migrate.js:217 after the row at position i of n rows,
\* also when the handler of migrate.js:254-258 ran (its continue)
afterRow(i, n, success) == IF i = n THEN "commit" ELSE "row"

\* migrate.js:217-259, one row: encode it, send the INSERT, record a failure
InsertRow ==
  /\ pc = "row"
  /\ LET target == pgResolve(safeTableName) IN
     \E ok \in BOOLEAN :
       LET value == rowValue(rows[ri])
           success == ok /\ pg[target].exists
       IN
       /\ ok \/ Len(failedRows) < MaxRowErrors
       /\ emitted' = [value |-> value, done |-> TRUE,
                      literal |-> encodeValue(pgColumnTypes, ColumnName, value)]
       /\ issued' = issued \cup { <<"INSERT", target>> }
       /\ attempts' = Append(attempts, [pos |-> rows[ri], ok |-> success])
       /\ IF success
          THEN /\ pg' = [pg EXCEPT ![target].rows = @ + 1]
               /\ inserted' = [inserted EXCEPT ![tableName] = @ + 1]
               /\ UNCHANGED failedRows
          ELSE /\ failedRows' =
                    Append(failedRows,
                           <<tableName, processedRows + Len(failedRows),
                             "error">>)
               /\ UNCHANGED << pg, inserted >>
       /\ pc' = afterRow(ri, Len(rows), success)
  /\ ri' = ri + 1
  /\ UNCHANGED << exitCode, sqlite, conns, precheck, tables, ti,
                  pgColumnTypes, schema, retryCount, totalRows, processedRows,
                  rows, pending, sqliteIssued, fetchErrors, commitErrors,
                  truncated, migrated, touched, schemaTries, run, afterRun1,
                  createFailed, arg, result >>

\* migrate.js:261-263; a failed COMMIT is caught by the handler of
\* migrate.js:265-270, which adds BATCH_SIZE to processedRows
Commit ==
  /\ pc = "commit"
  /\ issued' = issued \cup { <<"COMMIT", pgResolve(safeTableName)>> }
  /\ \E ok \in BOOLEAN :
       IF ok
       THEN /\ processedRows' = processedRows + Len(rows)
            /\ UNCHANGED commitErrors
       ELSE /\ processedRows' = processedRows + Len(rows) + BATCH_SIZE
            /\ commitErrors' = commitErrors + 1
  /\ pc' = "fetch"
  /\ emitted' = NoEmit
  /\ UNCHANGED << exitCode, sqlite, pg, conns, precheck, tables, ti,
                  pgColumnTypes, schema, retryCount, totalRows, failedRows,
                  rows, ri, pending, sqliteIssued, attempts, fetchErrors,
                  truncated, inserted, migrated, touched, schemaTries, run,
                  afterRun1, createFailed, arg, result >>

\* migrate.js:273-282: the summary is printed and the iteration ends, and
\* with it the scope of the variables of the loop body
TableDone ==
  /\ pc = "tabledone"
  /\ ti' = ti + 1
  /\ pc' = "loop"
  /\ pgColumnTypes' = NoTypes
  /\ retryCount' = 0
  /\ totalRows' = 0
  /\ processedRows' = 0
  /\ failedRows' = <<>>
  /\ rows' = <<>>
  /\ ri' = 0
  /\ attempts' = <<>>
  /\ fetchErrors' = 0
  /\ commitErrors' = 0
  /\ schemaTries' = <<>>
  /\ migrated' = migrated \cup {tableName}
  /\ UNCHANGED << exitCode, sqlite, pg, conns, precheck, tables, schema,
                  pending, issued, sqliteIssued, emitted, truncated, inserted,
                  touched, run, afterRun1, createFailed, arg, result >>

(* ------------------------------------------------------------------ *)
(* End of the run, migrate.js:284-301                                  *)
(* ------------------------------------------------------------------ *)

\* migrate.js:284-288: table.failedRows is undefined for every table, so
\* the total is 0 and nothing more is printed
LoopEnd ==
  /\ pc = "loop"
  /\ ti > Len(tables)
  /\ pc' = "finally"
  /\ UNCHANGED << exitCode, sqlite, pg, conns, precheck, tables, ti,
                  tableVars, pending, issued, sqliteIssued, truncated,
                  inserted, migrated, touched, run, afterRun1, createFailed,
                  arg, result >>

\* migrate.js:290-293: an error of the ROLLBACK leaves the catch block
Catch ==
  /\ pc = "catch"
  /\ issued' = issued \cup { <<"ROLLBACK", <<>> >> }
  /\ \E ok \in BOOLEAN : pending' = ~ok
  /\ pc' = "finally"
  /\ UNCHANGED << exitCode, sqlite, pg, conns, precheck, tables, ti,
                  tableVars, sqliteIssued, truncated, inserted, migrated,
                  touched, run, afterRun1, createFailed, arg, result >>

\* migrate.js:294-298
Finally ==
  /\ pc = "finally"
  /\ conns' = [conns EXCEPT !.sqliteClosed = @ + 1, !.pgClosed = @ + 1]
  /\ IF pending
     THEN pc' = "rejected" /\ UNCHANGED exitCode
     ELSE pc' = "exited" /\ exitCode' = 0
  /\ UNCHANGED << sqlite, pg, precheck, tables, ti, tableVars, pending,
                  issued, sqliteIssued, truncated, inserted, migrated,
                  touched, run, afterRun1, createFailed, arg, result >>

\* migrate.js:301: the rejection is handled by console.error, the process
\* then ends normally
TopLevelCatch ==
  /\ pc = "rejected"
  /\ pc' = "exited"
  /\ exitCode' = 0
  /\ UNCHANGED << sqlite, pg, conns, precheck, tables, ti, tableVars, pending,
                  issued, sqliteIssued, truncated, inserted, migrated,
                  touched, run, afterRun1, createFailed, arg, result >>

Next ==
  \/ OpenSqlite \/ ConnectPg \/ IntegrityCheck \/ ListTables
  \/ SkipTable \/ Truncate \/ PgSchema \/ FetchSchema
  \/ CreateTable \/ ReuseTable \/ CountRows \/ FetchPage
  \/ InsertRow \/ Commit \/ TableDone
  \/ LoopEnd \/ Catch \/ Finally \/ TopLevelCatch

Spec == Init /\ [][Next]_vars

SpecPaging == InitPaging /\ [][Next]_vars

(* ------------------------------------------------------------------ *)
(* The script run a second time on the same two databases              *)
(* ------------------------------------------------------------------ *)

\* one table, empty or of more than one page
InitTwice == InitWith({ l \in TableLists : Len(l) <= 1 }, {0, BATCH_SIZE + 1})

\* The process of run 1 has ended and the script is started again: the
\* databases are as run 1 left them, the script's state is that of
\* migrate.js:98.
Rerun ==
  /\ pc = "exited"
  /\ run = 1
  /\ run' = 2
  /\ afterRun1' = [rows |-> [t \in TableNames |-> pg[t].rows],
                   migrated |-> migrated]
  /\ pc' = "start"
  /\ exitCode' = NotExited
  /\ conns' = [sqliteOpened |-> 0, sqliteClosed |-> 0,
               pgOpened |-> 0, pgClosed |-> 0]
  /\ precheck' = NoCheck
  /\ tables' = <<>>
  /\ ti' = 0
  /\ pgColumnTypes' = NoTypes
  /\ schema' = <<>>
  /\ retryCount' = 0
  /\ totalRows' = 0
  /\ processedRows' = 0
  /\ failedRows' = <<>>
  /\ rows' = <<>>
  /\ ri' = 0
  /\ pending' = FALSE
  /\ issued' = {}
  /\ sqliteIssued' = {}
  /\ attempts' = <<>>
  /\ fetchErrors' = 0
  /\ commitErrors' = 0
  /\ emitted' = NoEmit
  /\ truncated' = {}
  /\ inserted' = [t \in TableNames |-> 0]
  /\ migrated' = {}
  /\ touched' = <<>>
  /\ createFailed' = {}
  /\ schemaTries' = <<>>
  /\ UNCHANGED << sqlite, pg, arg, result >>

NextTwice == Next \/ Rerun

SpecTwice == InitTwice /\ [][NextTwice]_vars

(* ------------------------------------------------------------------ *)
(* The run with any number of failed page fetches                      *)
(* ------------------------------------------------------------------ *)

\* An offset past every table of InitLive: a fetch at a larger offset
\* returns what a fetch at this one returns, so larger offsets are not told
\* apart.
PastEveryTable == 2 * BATCH_SIZE
capOffset(o) == IF o > PastEveryTable THEN PastEveryTable ELSE o

\* migrate.js:203-214 and 265-270 as in FetchPage, but a fetch can fail any
\* number of times: the handler has no limit. fetchErrors counts the
\* failures up to MaxFetchErrors + 1 and then starts again at 1.
FetchPageAnyErrors ==
  /\ pc = "fetch"
  /\ sqliteIssued' = sqliteIssued \cup { <<"SELECT", tableName>> }
  /\ \/ LET page == selectPage(sqlite.count[tableName], BATCH_SIZE,
                               processedRows) IN
        /\ rows' = page
        /\ IF Len(page) = 0
           THEN pc' = "tabledone" /\ ri' = 0
           ELSE pc' = "row" /\ ri' = 1
        /\ UNCHANGED << processedRows, fetchErrors >>
     \/ /\ fetchErrors' = (fetchErrors % (MaxFetchErrors + 1)) + 1
        /\ processedRows' = capOffset(processedRows + BATCH_SIZE)
        /\ UNCHANGED << pc, rows, ri >>
  /\ UNCHANGED << exitCode, sqlite, pg, conns, precheck, tables, ti,
                  pgColumnTypes, schema, retryCount, totalRows, failedRows,
                  pending, issued, attempts, commitErrors, emitted,
                  truncated, inserted, migrated, touched, schemaTries, run,
                  afterRun1, createFailed, arg, result >>

\* a bookkeeping table, then an application table of one row
InitLive == InitWith({ <<alembic_version, chat>> }, {1})

NextLive ==
  \/ OpenSqlite \/ ConnectPg \/ IntegrityCheck \/ ListTables
  \/ SkipTable \/ Truncate \/ PgSchema \/ FetchSchema
  \/ CreateTable \/ ReuseTable \/ CountRows \/ FetchPageAnyErrors
  \/ InsertRow \/ Commit \/ TableDone
  \/ LoopEnd \/ Catch \/ Finally \/ TopLevelCatch

\* The process keeps running: it takes a step whenever it can. Nothing
\* makes a query succeed.
SpecLive == InitLive /\ [][NextLive]_vars /\ WF_vars(NextLive)

(* ------------------------------------------------------------------ *)
(* The helper functions called on their own                            *)
(* ------------------------------------------------------------------ *)

\* the sequences over S of length at most n
SeqsUpTo(S, n) == UNION { [1..k -> S] : k \in 0..n }

\* identifiers: every mix of a few letters, and some whole words
Identifiers ==
  SeqsUpTo({"u", "U", "s", "S", "e", "E", "r", "R"}, MaxIdentLen)
    \cup { <<"f","r","o","m">>, <<"F","r","o","m">>, <<"O","R","D","E","R">>,
           <<"o","r","d","e","r","s">>, <<"I","n","d","e","X">>,
           <<"c","h","a","t">>, <<DQ,"u","s","e","r",DQ>>,
           <<"c","o","n","s","t","r","a","i","n","t">> }

\* what pgColumnTypes can be for the one column of a table
ColumnTypeMaps ==
  { NoTypes } \cup
  { [k \in {ColumnName} |-> t] :
      t \in {"boolean", "integer", "text", "bytea"} }

\* values of a row
EncoderValues ==
  { JsNull } \cup { JsNumber(n) : n \in 0..2 }
    \cup { JsString(t) : t \in SeqsUpTo({"a", SQ, NUL}, MaxTextLen) }
    \cup { JsBuffer(b) : b \in SeqsUpTo({"0x61", "0x27", "0xFF"}, MaxTextLen) }

HelperArgs ==
  { [fn |-> "getSafeIdentifier", ident |-> i, types |-> NoTypes,
     value |-> JsNull] : i \in Identifiers }
    \cup
  { [fn |-> "encodeValue", ident |-> ColumnName, types |-> m, value |-> v] :
      m \in ColumnTypeMaps, v \in EncoderValues }

InitHelpers ==
  /\ Fresh
  /\ run = 1
  /\ afterRun1 = NoCounts
  /\ sqlite = [tables |-> <<>>, count |-> [t \in TableNames |-> 1]]
  /\ pg = [t \in TableNames |-> PgAbsent]
  /\ arg \in HelperArgs
  /\ result = NoResult

\* getSafeIdentifier(identifier), as called at migrate.js:139, 185 and 219
CallGetSafeIdentifier ==
  /\ arg.fn = "getSafeIdentifier"
  /\ ~result.done
  /\ result' = [done |-> TRUE, ident |-> getSafeIdentifier(arg.ident),
                literal |-> JsNull]
  /\ UNCHANGED << pc, exitCode, sqlite, pg, conns, precheck, tables, ti,
                  tableVars, pending, issued, sqliteIssued, truncated,
                  inserted, migrated, touched, run, afterRun1, createFailed,
                  arg >>

\* the encoder of one value, as called at migrate.js:220
CallEncodeValue ==
  /\ arg.fn = "encodeValue"
  /\ ~result.done
  /\ result' = [done |-> TRUE, ident |-> <<>>,
                literal |-> encodeValue(arg.types, arg.ident, arg.value)]
  /\ UNCHANGED << pc, exitCode, sqlite, pg, conns, precheck, tables, ti,
                  tableVars, pending, issued, sqliteIssued, truncated,
                  inserted, migrated, touched, run, afterRun1, createFailed,
                  arg >>

NextHelpers == CallGetSafeIdentifier \/ CallEncodeValue

SpecHelpers == InitHelpers /\ [][NextHelpers]_vars

(* ------------------------------------------------------------------ *)
(* Properties                                                          *)
(* ------------------------------------------------------------------ *)

\* the rows of the current table whose INSERT succeeded / was rejected
okAttempts     == SelectSeq(attempts, LAMBDA a : a.ok)
failedAttempts == SelectSeq(attempts, LAMBDA a : ~a.ok)
\* the positions 0 .. n-1 in order
firstRows(n) == [i \in 1..n |-> i - 1]

\* C1: round trip. When the paging of a table has ended and no page fetch
\* and no INSERT of the table failed, exactly as many INSERTs succeeded as
\* the table has rows, and failedRows is empty.
C1_RoundTrip ==
  (pc = "tabledone" /\ fetchErrors = 0 /\ failedAttempts = <<>>)
    => /\ Len(okAttempts) = sqlite.count[tableName]
       /\ failedRows = <<>>

\* C2: per-row failure isolation. Every rejected INSERT has one entry in
\* failedRows, carrying the table name; when a page reaches its COMMIT,
\* every row of the page was attempted, whatever failed before; and the
\* paging of a table ends only when a fetch returns no rows.
C2_FailureIsolation ==
  /\ Len(failedRows) = Len(failedAttempts)
  /\ \A i \in DOMAIN failedRows : failedRows[i][1] = tableName
  /\ pc = "commit" =>
       /\ Len(attempts) >= Len(rows)
       /\ \A i \in DOMAIN rows :
            attempts[Len(attempts) - Len(rows) + i].pos = rows[i]
  /\ pc = "tabledone" =>
       /\ rows = <<>>
       /\ processedRows >= sqlite.count[tableName]
       /\ (fetchErrors = 0 /\ commitErrors = 0) =>
            [i \in DOMAIN attempts |-> attempts[i].pos]
              = firstRows(sqlite.count[tableName])

\* C2 witness: a table of more than one page is finished, an INSERT of its
\* first page was rejected and all its rows were attempted
C2_Witness ==
  /\ pc = "tabledone"
  /\ Len(attempts) = sqlite.count[tableName]
  /\ Len(attempts) > BATCH_SIZE
  /\ ~attempts[1].ok

\* C3: every entry of failedRows carries the position of the failing row in
\* the table's fetch order.
C3_FailedRowIndex ==
  \A i \in DOMAIN failedRows :
    i <= Len(failedAttempts) => failedRows[i][2] = failedAttempts[i].pos

\* the precheck is one that must fail: a status other than ok, a foreign-key
\* violation, or an error raised by one of its queries
PrecheckFailed ==
  /\ precheck.ran
  /\ \/ precheck.integrityCheck.err \/ precheck.quickCheck.err
     \/ precheck.fkCheck.err \/ precheck.probe.err
     \/ precheck.integrityCheck.val # "ok"
     \/ precheck.quickCheck.val # "ok"
     \/ precheck.fkCheck.val > 0

\* statements that change the destination
Mutations == {"TRUNCATE", "CREATE", "INSERT", "COMMIT"}

\* C4: when the integrity precheck must fail, the run is over and no
\* TRUNCATE, CREATE TABLE, INSERT or COMMIT was sent to the destination.
C4_AbortBeforeMutation ==
  PrecheckFailed =>
    /\ pc = "exited"
    /\ { st \in issued : st[1] \in Mutations } = {}
    /\ sqliteIssued = {}

\* C4 witness: the process has ended on a foreign-key violation alone
C4_Witness ==
  /\ pc = "exited"
  /\ precheck.ran
  /\ precheck.fkCheck.val > 0
  /\ ~precheck.fkCheck.err
  /\ precheck.integrityCheck = [err |-> FALSE, val |-> "ok"]
  /\ precheck.quickCheck = [err |-> FALSE, val |-> "ok"]

\* C5: when the process has ended, each connection that was opened has been
\* closed exactly once.
C5_ConnectionsClosedOnce ==
  pc = "exited" =>
    /\ conns.sqliteOpened = 1 => conns.sqliteClosed = 1
    /\ conns.pgOpened = 1 => conns.pgClosed = 1

\* a fatal error reached the top level of the run: the destination could
\* not be connected, or the outer handler of migrate.js:290 ran
FatalError ==
  \/ conns.pgOpened = 0 /\ pending
  \/ <<"ROLLBACK", <<>> >> \in issued

\* C6: the process ends with a non-zero exit code exactly when the integrity
\* precheck failed or a fatal error reached the top level.
C6_ExitCode ==
  pc = "exited" => (exitCode # 0 <=> (PrecheckFailed \/ FatalError))

\* C8: once the destination column map of a table is fetched, it is empty
\* exactly when the destination table does not exist.
C8_EmptyMapIffAbsent ==
  pc \in {"schema", "create"} =>
    (DOMAIN pgColumnTypes = {} <=> ~pg[pgResolve(safeTableName)].exists)

\* C9: a non-null value of a column that the destination reports as boolean
\* is encoded as the literal true when it is 1 and as false otherwise.
C9_BooleanEncoding ==
  ( /\ emitted.done
    /\ emitted.value.kind # "null"
    /\ pg[pgResolve(safeTableName)].type = "boolean" )
    => emitted.literal =
         IF emitted.value = JsNumber(1)
         THEN JsString(<<"t","r","u","e">>)
         ELSE JsString(<<"f","a","l","s","e">>)

\* the destination type the type translation must give a declared type,
\* comparing in lower case
expectedPgType(declared) ==
  LET d == toLowerCase(declared) IN
  IF d = <<"i","n","t","e","g","e","r">> THEN "INTEGER"
  ELSE IF d = <<"r","e","a","l">> THEN "DOUBLE PRECISION"
  ELSE IF d = <<"b","l","o","b">> THEN "BYTEA"
  ELSE "TEXT"

\* C10: a table created in the destination gets, for its column, the type
\* INTEGER, DOUBLE PRECISION, TEXT or BYTEA that corresponds to the declared
\* source type, whatever the case of the declared type, and TEXT for any
\* other declared type.
C10_TypeTranslation ==
  [][ \A t \in TableNames :
        (pc = "create" /\ ~pg[t].exists /\ pg'[t].exists)
          => pg'[t].type = expectedPgType(schema[1].type) ]_vars

\* C10 witness: a table was created from the declared type Real
C10_Witness ==
  /\ pc = "count"
  /\ pg[pgResolve(safeTableName)].type = "DOUBLE PRECISION"

\* the destination table that the statements of source table t act on
pgTableOf(t) == pgResolve(getSafeIdentifier(t))

sameIgnoringCase(a, b) ==
  /\ Len(a) = Len(b)
  /\ \A i \in 1..Len(a) :
       \/ a[i] = b[i]
       \/ \E j \in 1..26 : {a[i], b[i]} = {LowerAlpha[j], UpperAlpha[j]}

\* C11: getSafeIdentifier returns the identifier between double quotes,
\* otherwise unchanged, when it is a reserved keyword up to case, and the
\* identifier itself otherwise.
C11_SafeIdentifier ==
  (result.done /\ arg.fn = "getSafeIdentifier") =>
    result.ident =
      IF \E k \in 1..Len(reservedKeywords) :
           sameIgnoringCase(arg.ident, reservedKeywords[k])
      THEN <<DQ>> \o arg.ident \o <<DQ>>
      ELSE arg.ident

\* C11 witness: a reserved keyword in mixed case was quoted
C11_Witness ==
  /\ result.done
  /\ arg.fn = "getSafeIdentifier"
  /\ arg.ident = <<"U","s","e","R">>
  /\ result.ident = <<DQ,"U","s","e","R",DQ>>

\* C12: a null value is encoded as the literal NULL whatever the type of its
\* column is, a boolean column included: the null rule comes first.
C12_NullEncoding ==
  (result.done /\ arg.fn = "encodeValue" /\ arg.value = JsNull) =>
    result.literal = JsString(<<"N","U","L","L">>)

\* C12 witness: a null of a boolean column was encoded as NULL
C12_Witness ==
  /\ result.done
  /\ arg.fn = "encodeValue"
  /\ arg.value = JsNull
  /\ columnTypeOf(arg.types, arg.ident) = "boolean"
  /\ result.literal = JsString(<<"N","U","L","L">>)

\* the number of single quotes in s
quotesIn(s) == Cardinality({ i \in 1..Len(s) : s[i] = SQ })

\* lit is a single quote, then s with every NUL dropped and every single
\* quote twice, then a single quote
IsQuotedLiteralOf(lit, s) ==
  LET kept  == SelectSeq(s, LAMBDA c : c # NUL)
      inner == SubSeq(lit, 2, Len(lit) - 1)
      pos(i) == i + quotesIn(SubSeq(kept, 1, i - 1))
  IN /\ Len(lit) = Len(kept) + quotesIn(kept) + 2
     /\ lit[1] = SQ
     /\ lit[Len(lit)] = SQ
     /\ \A i \in 1..Len(kept) :
          /\ inner[pos(i)] = kept[i]
          /\ kept[i] = SQ => inner[pos(i) + 1] = SQ
     /\ \A i \in 1..Len(inner) : inner[i] # NUL
     /\ quotesIn(inner) % 2 = 0

\* C13: the literal of a text value of a column that is not boolean is the
\* value between single quotes with every NUL removed and every single quote
\* doubled.
C13_TextEncoding ==
  (/\ result.done
   /\ arg.fn = "encodeValue"
   /\ arg.value.kind = "string"
   /\ columnTypeOf(arg.types, arg.ident) # "boolean") =>
    /\ result.literal.kind = "string"
    /\ IsQuotedLiteralOf(result.literal.s, arg.value.s)

\* C13 witness: a text with two single quotes and a NUL was encoded
C13_Witness ==
  /\ result.done
  /\ arg.fn = "encodeValue"
  /\ arg.value = JsString(<<SQ, NUL, SQ>>)
  /\ columnTypeOf(arg.types, arg.ident) = "text"
  /\ result.literal = JsString(<<SQ, SQ, SQ, SQ, SQ, SQ>>)

\* the two bookkeeping names, letter for letter
Denylist == { migratehistory, alembic_version }

\* how many positions of the table list the loop has entered
entered == IF pc = "loop" THEN ti - 1
           ELSE IF ti <= Len(tables) THEN ti ELSE Len(tables)

\* C14: no statement goes to the destination and no schema, count or row
\* query to the source for a table named exactly migratehistory or
\* alembic_version: every statement is for a table whose processing has
\* begun, and those are the other tables of the list, each once and in the
\* order of the list.
C14_Denylist ==
  /\ touched = SelectSeq(SubSeq(tables, 1, entered),
                         LAMBDA n : n \notin Denylist)
  /\ \A e \in sqliteIssued :
       /\ e[2] \notin Denylist
       /\ \E i \in 1..Len(touched) : touched[i] = e[2]
  /\ \A e \in issued :
       e[1] # "ROLLBACK" =>
         \E i \in 1..Len(touched) : pgTableOf(touched[i]) = e[2]

\* C14 witness: a run over a bookkeeping table and an application table
\* ended, and only the application table was migrated
C14_Witness ==
  /\ pc = "exited"
  /\ tables = <<alembic_version, user>>
  /\ touched = <<user>>
  /\ migrated = {user}
  /\ <<"INSERT", user>> \in issued

\* C15: a page fetch that raises an error at offset o leaves the offset at
\* o + BATCH_SIZE, sends no INSERT and no COMMIT, adds nothing to failedRows
\* and leaves the pager fetching the same table: the table is not aborted.
C15_FetchErrorPolicy ==
  [][ fetchErrors' = fetchErrors + 1 =>
        /\ pc = "fetch"
        /\ processedRows' = processedRows + BATCH_SIZE
        /\ issued' = issued
        /\ attempts' = attempts
        /\ failedRows' = failedRows
        /\ pg' = pg
        /\ pc' = "fetch"
        /\ ti' = ti
        /\ tables' = tables
        /\ pending' = pending ]_vars

\* C15 witness: the fetch of the first page of a table of more than a page
\* failed, and the pager is about to fetch at the next page's offset
C15_Witness ==
  /\ pc = "fetch"
  /\ fetchErrors = 1
  /\ sqlite.count[tableName] > BATCH_SIZE
  /\ processedRows = BATCH_SIZE
  /\ attempts = <<>>
  /\ failedRows = <<>>

\* C16: after a fetch at offset o returned k > 0 rows, the next fetch of the
\* table is at offset o + k, whatever the INSERTs and the COMMIT of the page
\* did; a fetch that returns no rows ends the table and leaves the offset.
C16_OffsetAdvance ==
  [][ /\ (pc = "fetch" /\ pc' = "row") =>
           /\ Len(rows') > 0
           /\ processedRows' = processedRows
      /\ pc = "row" => processedRows' = processedRows
      /\ pc = "commit" =>
           /\ pc' = "fetch"
           /\ processedRows' = processedRows + Len(rows)
      /\ (pc = "fetch" /\ Len(rows') = 0 /\ fetchErrors' = fetchErrors) =>
           /\ pc' = "tabledone"
           /\ processedRows' = processedRows ]_vars

\* every schema fetch of the current table so far failed
allSchemaTriesFailed == \A i \in DOMAIN schemaTries : ~schemaTries[i]

\* C17: the schema of a table is fetched from the source at most MAX_RETRIES
\* = 3 times and never again after a fetch succeeded; when all MAX_RETRIES
\* fetches failed the error is raised, and the table gets no CREATE TABLE, no
\* count or row query and no INSERT; before that a failed fetch is retried.
C17_SchemaRetryBound ==
  /\ MAX_RETRIES = 3
  /\ Len(schemaTries) <= MAX_RETRIES
  /\ \A i \in 1..(Len(schemaTries) - 1) : ~schemaTries[i]
  /\ (Len(schemaTries) = MAX_RETRIES /\ allSchemaTriesFailed) =>
       /\ pc \in {"catch", "finally", "rejected", "exited"}
       /\ <<"CREATE", pgTableOf(tableName)>> \notin issued
       /\ <<"INSERT", pgTableOf(tableName)>> \notin issued
       /\ <<"COUNT", tableName>> \notin sqliteIssued
       /\ <<"SELECT", tableName>> \notin sqliteIssued
  /\ (/\ Len(schemaTries) > 0
      /\ Len(schemaTries) < MAX_RETRIES
      /\ allSchemaTriesFailed) => pc = "schema"

\* C17 witness: three schema fetches of the second table failed and the run
\* ended
C17_Witness ==
  /\ pc = "exited"
  /\ ti = 2
  /\ schemaTries = <<FALSE, FALSE, FALSE>>
  /\ <<"SCHEMA", tableName>> \in sqliteIssued

Rollback == <<"ROLLBACK", <<>> >>
Ending == {"catch", "finally", "rejected", "exited"}

\* C18, in every state: the table whose CREATE TABLE raised an error is the
\* current and last table begun, nothing was counted, fetched or inserted
\* for it, and the run is in the outer handler or beyond it, the ROLLBACK
\* sent exactly when the handler has run.
C18_AfterCreateError ==
  \A t \in createFailed :
    /\ pc \in Ending
    /\ ti <= Len(tables)
    /\ tableName = t
    /\ touched # <<>>
    /\ touched[Len(touched)] = t
    /\ <<"CREATE", pgTableOf(t)>> \in issued
    /\ <<"COUNT", t>> \notin sqliteIssued
    /\ <<"SELECT", t>> \notin sqliteIssued
    /\ <<"INSERT", pgTableOf(t)>> \notin issued
    /\ attempts = <<>>
    /\ inserted[t] = 0
    /\ Rollback \in issued <=> pc # "catch"

\* C18, in every step after the error: the handler sends the ROLLBACK and
\* goes to the finally block, the run goes on to its end, and no other
\* statement or query is sent and no table is begun.
C18_StepsAfterCreateError ==
  createFailed # {} =>
    /\ pc = "catch" => (pc' = "finally" /\ issued' = issued \cup {Rollback})
    /\ pc = "finally" => pc' \in {"rejected", "exited"}
    /\ pc = "rejected" => pc' = "exited"
    /\ pc # "catch" => issued' = issued
    /\ sqliteIssued' = sqliteIssued
    /\ ti' = ti
    /\ touched' = touched
    /\ pg' = pg

\* C18: an error of CREATE TABLE is fatal to the run: no row of the table is
\* fetched or inserted, no later table gets a statement, the outer handler
\* sends one ROLLBACK, and the run goes to its end.
C18_CreateFailureFatal ==
  [] C18_AfterCreateError /\ [][C18_StepsAfterCreateError]_vars

\* C18 witness: the CREATE TABLE of the first of two tables failed and the
\* run has ended after the ROLLBACK
C18_Witness ==
  /\ pc = "exited"
  /\ Len(tables) = 2
  /\ ti = 1
  /\ createFailed = {tables[1]}
  /\ Rollback \in issued

\* C19: every run ends, and the paging loop of every table reaches the fetch
\* that returns no rows, also when page fetches raise errors.
C19_Termination ==
  /\ <>(pc = "exited")
  /\ (pc = "fetch") ~> (pc = "tabledone")

\* C20, in every state: the rows of a table whose INSERT was tried are all
\* different, in increasing order of position; the rows of the current page
\* start at the offset and come after every row tried before the page.
C20_RowsTriedOnce ==
  /\ \A i, j \in DOMAIN attempts : i < j => attempts[i].pos < attempts[j].pos
  /\ pc \in {"row", "commit"} =>
       /\ \A i \in DOMAIN rows : rows[i] = processedRows + i - 1
       /\ \A i \in DOMAIN attempts :
            \/ attempts[i].pos < processedRows
            \/ \E k \in 1..(ri - 1) : attempts[i].pos = rows[k]

\* C20, in every step: a table starts at offset 0 with an empty failedRows;
\* the offset never decreases during a table; from one fetch to the next it
\* grows, whether the fetch failed or returned rows.
C20_OffsetSteps ==
  /\ (pc = "count" /\ pc' = "fetch") =>
       /\ processedRows' = 0
       /\ failedRows' = <<>>
       /\ attempts' = <<>>
  /\ pc \in {"fetch", "row", "commit"} => processedRows' >= processedRows
  /\ (pc = "fetch" /\ pc' = "fetch") => processedRows' > processedRows
  /\ (pc = "commit" /\ pc' = "fetch") => processedRows' > processedRows

\* C20: within one run no row of the source is tried for INSERT more than
\* once: the offsets of the fetches of a table grow, pages do not overlap,
\* and processedRows starts at 0 with an empty failedRows and never
\* decreases during a table.
C20_NoRowTwice == [] C20_RowsTriedOnce /\ [][C20_OffsetSteps]_vars

\* C20 witness: the rows of three full pages were tried, each once
C20_Witness ==
  /\ pc = "tabledone"
  /\ sqlite.count[tableName] = 3 * BATCH_SIZE
  /\ Len(attempts) = 3 * BATCH_SIZE
  /\ \A i \in DOMAIN attempts : attempts[i].pos = i - 1

====
